---- MODULE Spec2Model ----
(***************************************************************************)
(* Payment reconciliation engine of arcwright-site: the payment ledger     *)
(* (lib/db.js), the checkout / download handlers and the reconciliation    *)
(* callback (server.js), the delivery collaborator (lib/delivery.js) and   *)
(* the EVM chain monitor (lib/monitor.js) and the Solana monitor           *)
(* (lib/solana-monitor.js).                                                *)
(*                                                                         *)
(* Node.js runs one handler at a time: a handler is atomic between two     *)
(* `await`s, so every action below is the code between two suspension      *)
(* points (or a whole synchronous handler).                                *)
(***************************************************************************)
EXTENDS Integers, Sequences, FiniteSets, TLC

\* ---------------------------------------------------------------- bounds
MaxPayments == 1     \* payment rows created while the monitor runs
MaxRequests == 2     \* checkout requests (rows and suspended) of the allocator runs
MaxAlloc    == 3     \* calls of getNextAddressIndex
MaxTime     == 2     \* last value of the clock Date.now()
MaxBlock    == 2     \* last block height of a chain
MaxLoops    == 2     \* _poll() loops of one monitor alive at once
MaxTx       == 2     \* transfers ever sent on a chain
TimeoutMs   == 1     \* TIMEOUT_MS in clock units (server.js:61)

\* SQL NULL of a nullable column / JS null
NULL == -1

\* ------------------------------------------------------- program constants
\* server.js:98-103 VALID_METHODS, as <<crypto, chain>>
VALID_METHODS ==
  { <<"USDC", "base">>, <<"ETH", "base">>, <<"ETH", "ethereum">>, <<"SOL", "solana">> }

\* server.js:79-84 productFiles: slug -> price in USD (two of the four products)
Slugs == { "crypto-payment-engine", "proactive-agent-playbook" }

price_usd(slug) == IF slug = "crypto-payment-engine" THEN 24 ELSE 14

\* server.js:62 SOL_ADDRESS, the shared Solana receive address
SOL_ADDRESS == "SOL_ADDRESS"

\* lib/wallet.js getAddress(index): the address derived at path 0/index.
\* Derivation is injective; the address is represented by its index.
getAddress(index) == index

VARIABLES
  now,          \* Date.now()
  next_index,   \* address_counter.next_index
  allocated,    \* history: the indices getNextAddressIndex returned, in order
  payments,     \* table payments, a sequence of rows; a row's id is its position
  checkouts,    \* POST /api/checkout requests suspended at `await usdToCrypto`
  nextToken,    \* number of download tokens drawn from crypto.randomBytes
  transporter,  \* delivery.js: whether initMailer ran (SMTP configured)
  fileExists,   \* whether the product archives exist on disk
  mails,        \* deliverProduct calls suspended at `await sendMail`: id -> count
  deliverCalls, \* history: invocations of deliverProduct per payment id
  events,       \* history: the row updates run so far (operation, status before and after)
  sweepTick,    \* history: flips at every pass of the expiry sweep
  height,       \* per EVM chain: the current block number
  transfers,    \* per EVM chain: the transfers sent, in chain order
  polling,      \* per monitor: this.polling
  lastBlock,    \* per monitor: this.lastBlock (the watermark)
  starting,     \* per monitor: start() calls suspended at `await getBlockNumber`
  loops,        \* per monitor: the _poll() loops, each with its position and locals
  quoted,       \* history: per row, the amountCrypto its checkout computed and answered
  served,       \* history: the last download request answered with the file, if any
  scans,        \* history: per monitor, the blocks its ticks had in range and those scanned
  signatures,   \* the transactions on SOL_ADDRESS, oldest first; a signature is a position
  solPolling,   \* SolanaMonitor: this.polling
  lastSignature,\* SolanaMonitor: this.lastSignature
  solLoop,      \* SolanaMonitor: start() / _poll(), its position and locals
  solHist       \* history: the getTransaction answers so far, and the parity of the ticks begun

ledgerVars == << now, next_index, allocated, payments, checkouts, nextToken,
                 transporter, fileExists, mails, deliverCalls, events, sweepTick,
                 quoted, served >>

chainVars == << height, transfers, signatures >>

solVars == << solPolling, lastSignature, solLoop, solHist >>

monitorVars == << polling, lastBlock, starting, loops, scans, solVars >>

\* ------------------------------------------------------------ the ledger
Ids == 1..Len(payments)

\* (mutant) the UPDATE of the counter is lost
getNextAddressIndexNoUpdate(counter) ==
  [ index |-> counter, next_index |-> counter ]

\* db.js getNextAddressIndex: SELECT next_index, then UPDATE next_index + 1.
\* better-sqlite3 is synchronous: no other handler runs between the two.
getNextAddressIndex(counter) ==
  [ index |-> counter, next_index |-> counter + 1 ]

\* db.js createPayment: INSERT with status 'pending' (column default), the
\* nullable columns NULL, created_at = Date.now(). amountCrypto is not among
\* the inserted columns: the table has no amount_crypto column.
createPayment(ps, productSlug, amountUsd, crypto, chain, payAddress, addressIndex, t) ==
  Append(ps, [ product_slug   |-> productSlug,
               amount_usd     |-> amountUsd,
               crypto         |-> crypto,
               chain          |-> chain,
               pay_address    |-> payAddress,
               address_index  |-> addressIndex,
               status         |-> "pending",
               tx_hash        |-> NULL,
               download_token |-> NULL,
               created_at     |-> t,
               confirmed_at   |-> NULL,
               delivered_at   |-> NULL ])

\* history counters of a new row
Grown(counters) == Append(counters, 0)

\* db.js getPendingPayments: SELECT * WHERE status = 'pending' (ids, in row order)
getPendingPayments(ps) ==
  SelectSeq([i \in 1..Len(ps) |-> i], LAMBDA i : ps[i].status = "pending")

\* db.js getPaymentByToken: the first row with that token and status
\* confirmed or delivered; 0 when there is none.
getPaymentByToken(ps, token) ==
  LET hits == { i \in 1..Len(ps) :
                  /\ ps[i].download_token = token
                  /\ ps[i].status \in {"confirmed", "delivered"} }
  IN IF hits = {} THEN 0 ELSE CHOOSE i \in hits : \A j \in hits : i <= j

\* (mutant) the UPDATE without the download_token column
confirmPaymentNoToken(ps, id, txHash, downloadToken, t) ==
  [ ps EXCEPT ![id] = [ @ EXCEPT !.status = "confirmed",
                                 !.tx_hash = txHash,
                                 !.confirmed_at = t ] ]

\* db.js confirmPayment: UPDATE ... WHERE id = ?
confirmPayment(ps, id, txHash, downloadToken, t) ==
  [ ps EXCEPT ![id] = [ @ EXCEPT !.status = "confirmed",
                                 !.tx_hash = txHash,
                                 !.download_token = downloadToken,
                                 !.confirmed_at = t ] ]

\* db.js markDelivered: UPDATE ... WHERE id = ?
markDelivered(ps, id, t) ==
  [ ps EXCEPT ![id] = [ @ EXCEPT !.status = "delivered", !.delivered_at = t ] ]

\* (mutant) the sweep without its condition on status
expireOldPaymentsAnyStatus(ps, timeoutMs, t) ==
  LET cutoff == t - timeoutMs
  IN [ i \in 1..Len(ps) |->
         IF ps[i].created_at < cutoff
         THEN [ ps[i] EXCEPT !.status = "expired" ]
         ELSE ps[i] ]

\* db.js expireOldPayments: UPDATE ... WHERE status = 'pending' AND created_at < cutoff
expireOldPayments(ps, timeoutMs, t) ==
  LET cutoff == t - timeoutMs
  IN [ i \in 1..Len(ps) |->
         IF ps[i].status = "pending" /\ ps[i].created_at < cutoff
         THEN [ ps[i] EXCEPT !.status = "expired" ]
         ELSE ps[i] ]

\* ------------------------------------------------------------- the clock
\* Date.now() advances between handlers.
ClockTick ==
  /\ now < MaxTime
  /\ now' = now + 1
  /\ UNCHANGED << next_index, allocated, payments, checkouts, nextToken,
                  transporter, fileExists, mails, deliverCalls, events, sweepTick,
                  quoted, served >>
  /\ UNCHANGED << chainVars, monitorVars >>

\* ------------------------------------------------------------- checkout
RemoveAt(seq, k) == SubSeq(seq, 1, k - 1) \o SubSeq(seq, k + 1, Len(seq))

\* server.js POST /api/checkout up to `await usdToCrypto`: the request is
\* validated (method in VALID_METHODS, product found) and suspended.
CheckoutBegin(method, slug) ==
  /\ method \in VALID_METHODS
  /\ slug \in Slugs
  /\ checkouts' = Append(checkouts, [ crypto |-> method[1], chain |-> method[2],
                                      product_slug |-> slug ])
  /\ UNCHANGED << served, quoted, now, next_index, allocated, payments, nextToken,
                  transporter, fileExists, mails, deliverCalls, events, sweepTick >>
  /\ UNCHANGED << chainVars, monitorVars >>

\* prices.js usdToCrypto: USDC is 1:1; otherwise usd / price, rounded up at the
\* last decimal kept. ETH and SOL amounts are counted in units of 10^-4 coin
\* (the code keeps eight decimals), price is the oracle's USD price of a coin.
usdToCrypto(usd, crypto, price) ==
  IF crypto = "USDC" THEN usd ELSE (usd * 10000 + price - 1) \div price

\* usdToCrypto threw (no ETH / SOL price): 503, nothing is written.
CheckoutPriceUnavailable(k) ==
  /\ k \in 1..Len(checkouts)
  /\ checkouts[k].crypto # "USDC"
  /\ checkouts' = RemoveAt(checkouts, k)
  /\ UNCHANGED << served, quoted, now, next_index, allocated, payments, nextToken,
                  transporter, fileExists, mails, deliverCalls, events, sweepTick >>
  /\ UNCHANGED << chainVars, monitorVars >>

\* server.js POST /api/checkout after the await: amountCrypto at the oracle's
\* price, pay address, createPayment, and the answer with amount_crypto.
CheckoutResume(k, price) ==
  /\ k \in 1..Len(checkouts)
  /\ price > 0
  /\ quoted' = Append(quoted, usdToCrypto(price_usd(checkouts[k].product_slug),
                                          checkouts[k].crypto, price))
  /\ LET req == checkouts[k]
         alloc == getNextAddressIndex(next_index)
     IN IF req.crypto = "SOL"
        THEN /\ payments' = createPayment(payments, req.product_slug,
                               price_usd(req.product_slug), req.crypto, req.chain,
                               SOL_ADDRESS, -1, now)
             /\ UNCHANGED << next_index, allocated >>
        ELSE /\ next_index' = alloc.next_index
             /\ allocated' = Append(allocated, alloc.index)
             /\ payments' = createPayment(payments, req.product_slug,
                               price_usd(req.product_slug), req.crypto, req.chain,
                               getAddress(alloc.index), alloc.index, now)
  /\ checkouts' = RemoveAt(checkouts, k)
  /\ mails' = Grown(mails)
  /\ deliverCalls' = Grown(deliverCalls)
  /\ UNCHANGED << now, nextToken, transporter, fileExists, events, sweepTick, served >>
  /\ UNCHANGED << chainVars, monitorVars >>

\* server.js GET /api/x402/products/:slug: allocates an index, creates no row.
X402Quote(slug) ==
  /\ slug \in Slugs
  /\ LET alloc == getNextAddressIndex(next_index)
     IN /\ next_index' = alloc.next_index
        /\ allocated' = Append(allocated, alloc.index)
  /\ UNCHANGED << served, quoted, now, payments, checkouts, nextToken,
                  transporter, fileExists, mails, deliverCalls, events, sweepTick >>
  /\ UNCHANGED << chainVars, monitorVars >>

\* History of one row update: the operation, the row's status before and
\* after, and whether the UPDATE changed the row at all.
Event(op, before, after) ==
  [ op |-> op, from |-> before.status, to |-> after.status, changed |-> before # after ]

\* ---------------------------------------------------------- expiry sweep
\* server.js:424-426 setInterval(() => db.expireOldPayments(TIMEOUT_MS), 60000)
ExpirySweep ==
  /\ payments' = expireOldPayments(payments, TimeoutMs, now)
  /\ events' = events \cup { Event("expireOldPayments", payments[i], payments'[i]) :
                              i \in { j \in Ids : payments'[j] # payments[j] } }
  /\ sweepTick' = ~sweepTick
  /\ UNCHANGED << served, quoted, now, next_index, allocated, checkouts, nextToken,
                  transporter, fileExists, mails, deliverCalls >>
  /\ UNCHANGED << chainVars, monitorVars >>

\* ------------------------------------------- confirmation and delivery
\* The part of the state a synchronous run of the callback reads and writes.
Ledger == [ payments |-> payments, mails |-> mails, nextToken |-> nextToken,
            deliverCalls |-> deliverCalls, events |-> events ]

\* db.markDelivered(id) at time t, with its history
runMarkDelivered(st, id, t) ==
  LET after == markDelivered(st.payments, id, t)
  IN [ st EXCEPT !.payments = after,
                 !.events = @ \cup { Event("markDelivered", st.payments[id], after[id]) } ]

\* db.confirmPayment(id, txHash, downloadToken) at time t, with its history
runConfirmPayment(st, id, txHash, downloadToken, t) ==
  LET after == confirmPayment(st.payments, id, txHash, downloadToken, t)
  IN [ st EXCEPT !.payments = after,
                 !.events = @ \cup { Event("confirmPayment", st.payments[id], after[id]) } ]

\* delivery.js deliverProduct up to its first suspension or return: the product
\* row exists (seeded at boot); a missing archive returns false; without a
\* mailer the row is marked delivered at once; with one, sendMail is awaited.
deliverProduct(st, id, t) ==
  LET called == [ st EXCEPT !.deliverCalls[id] = @ + 1 ]
  IN IF ~fileExists THEN called
     ELSE IF ~transporter
          THEN runMarkDelivered(called, id, t)
          ELSE [ called EXCEPT !.mails[id] = @ + 1 ]

\* server.js handlePaymentConfirmed: fresh token, confirmPayment, deliverProduct.
\* The monitors call it without awaiting: it runs up to deliverProduct's await.
handlePaymentConfirmed(st, id, txHash, t) ==
  LET downloadToken == st.nextToken + 1
      confirmed == runConfirmPayment([ st EXCEPT !.nextToken = downloadToken ],
                                     id, txHash, downloadToken, t)
  IN deliverProduct(confirmed, id, t)

\* (mutant) a failed send takes the confirmation back
MailReturnRollsBack(id, ok) ==
  /\ id \in Ids
  /\ mails[id] > 0
  /\ mails' = [ mails EXCEPT ![id] = @ - 1 ]
  /\ LET st == IF ok THEN runMarkDelivered(Ledger, id, now)
               ELSE [ Ledger EXCEPT !.payments[id].status = "pending",
                                    !.payments[id].download_token = NULL ]
     IN payments' = st.payments /\ events' = st.events
  /\ UNCHANGED << served, quoted, now, next_index, allocated, checkouts, nextToken,
                  transporter, fileExists, deliverCalls, sweepTick >>
  /\ UNCHANGED << chainVars, monitorVars >>

\* delivery.js:46-70: sendMail resolved or threw; markDelivered only on success.
MailReturn(id, ok) ==
  /\ id \in Ids
  /\ mails[id] > 0
  /\ mails' = [ mails EXCEPT ![id] = @ - 1 ]
  /\ LET st == IF ok THEN runMarkDelivered(Ledger, id, now) ELSE Ledger
     IN payments' = st.payments /\ events' = st.events
  /\ UNCHANGED << served, quoted, now, next_index, allocated, checkouts, nextToken,
                  transporter, fileExists, deliverCalls, sweepTick >>
  /\ UNCHANGED << chainVars, monitorVars >>

\* History of a download: the request (token, slug), the row it was
\* answered for as it was stored at that moment, and whether the handler
\* called markDelivered.
Served(token, slug, id, marked) ==
  [ token |-> token, slug |-> slug, id |-> id, row |-> payments[id], marked |-> marked ]

\* (mutant) the handler does not compare the row's product with the slug asked for
DownloadAnySlug(token, slug) ==
  /\ slug \in Slugs
  /\ LET id == getPaymentByToken(payments, token)
     IN /\ id # 0
        /\ fileExists
        /\ LET marked == payments[id].status = "confirmed"
               st == IF marked THEN runMarkDelivered(Ledger, id, now) ELSE Ledger
           IN /\ payments' = st.payments
              /\ events' = st.events
              /\ served' = << Served(token, slug, id, marked) >>
  /\ UNCHANGED << quoted, now, next_index, allocated, checkouts, nextToken,
                  transporter, fileExists, mails, deliverCalls, sweepTick >>
  /\ UNCHANGED << chainVars, monitorVars >>

\* server.js GET /api/download/:slug, the requests answered with the file:
\* the token finds a row (getPaymentByToken), its product is the slug asked
\* for, the archive is present; markDelivered only if the row is confirmed.
\* Every other request is answered 401/403/404 and writes nothing.
Download(token, slug) ==
  /\ slug \in Slugs
  /\ LET id == getPaymentByToken(payments, token)
     IN /\ id # 0
        /\ payments[id].product_slug = slug
        /\ fileExists
        /\ LET marked == payments[id].status = "confirmed"
               st == IF marked THEN runMarkDelivered(Ledger, id, now) ELSE Ledger
           IN /\ payments' = st.payments
              /\ events' = st.events
              /\ served' = << Served(token, slug, id, marked) >>
  /\ UNCHANGED << quoted, now, next_index, allocated, checkouts, nextToken,
                  transporter, fileExists, mails, deliverCalls, sweepTick >>
  /\ UNCHANGED << chainVars, monitorVars >>
\* ------------------------------------------------------------ the chains
EvmChains == { "base", "ethereum" }

\* server.js:399,409 usdcContract: set for the base monitor, null for ethereum
usdcAddress(c) == c = "base"

\* monitor.js:122 maxRange
maxRange == 5

\* USDC amounts are in units of 10^-6 USDC (the token's 6 decimals).
UsdcUnit == 1000000

\* A new block is mined.
MineBlock(c) ==
  /\ height[c] < MaxBlock
  /\ height' = [ height EXCEPT ![c] = @ + 1 ]
  /\ UNCHANGED << ledgerVars, transfers, signatures, monitorVars >>

\* Several blocks are mined between two polls of a monitor (a poll every 15 s).
MineBlocks(c, n) ==
  /\ n \in 1..(maxRange + 1)
  /\ height[c] + n <= MaxBlock + maxRange
  /\ height' = [ height EXCEPT ![c] = @ + n ]
  /\ UNCHANGED << ledgerVars, transfers, signatures, monitorVars >>

\* A payer sends `amount` of `asset` to a pay address a checkout handed out;
\* the transfer is included in the next block.
SendTransfer(c, asset, id, amount) ==
  /\ id \in Ids
  /\ payments[id].crypto # "SOL"
  /\ height[c] < MaxBlock
  /\ Len(transfers[c]) < MaxTx
  /\ transfers' = [ transfers EXCEPT ![c] =
                      Append(@, [ block  |-> height[c] + 1,
                                  asset  |-> asset,
                                  to     |-> payments[id].pay_address,
                                  amount |-> amount,
                                  hash   |-> Len(@) + 1 ]) ]
  /\ UNCHANGED << ledgerVars, height, signatures, monitorVars >>

\* The node returns, in a block's USDC Transfer logs, an entry without the
\* indexed recipient (topics[2] missing): log.topics[2].slice at
\* monitor.js:97 throws a TypeError on it. Its `to` is NULL.
SendMalformedLog(c) ==
  /\ height[c] < MaxBlock
  /\ Len(transfers[c]) < MaxTx
  /\ transfers' = [ transfers EXCEPT ![c] =
                      Append(@, [ block  |-> height[c] + 1,
                                  asset  |-> "USDC",
                                  to     |-> NULL,
                                  amount |-> 0,
                                  hash   |-> Len(@) + 1 ]) ]
  /\ UNCHANGED << ledgerVars, height, signatures, monitorVars >>

\* provider.getLogs({address: usdc, topics: [Transfer], fromBlock, toBlock})
getLogs(c, fromBlock, toBlock) ==
  SelectSeq(transfers[c], LAMBDA x : /\ x.asset = "USDC"
                                     /\ fromBlock <= x.block
                                     /\ x.block <= toBlock)

\* provider.getBlockWithTransactions(blockNum).transactions with a value
getBlockTransactions(c, blockNum) ==
  SelectSeq(transfers[c], LAMBDA x : x.asset = "ETH" /\ x.block = blockNum)

\* ----------------------------------------------------------- the monitor
\* A row read by SELECT * has no amount_crypto (no such column): undefined.
amount_crypto(row) == NULL

\* pending.find(p => p.pay_address === to): the first such id, 0 for undefined.
\* pay_address, amount_usd, crypto and chain of a row are never updated, so the
\* snapshot rows are read through the table.
findByAddress(ps, pending, to) ==
  LET hits == SelectSeq(pending, LAMBDA i : ps[i].pay_address = to)
  IN IF hits = << >> THEN 0 ELSE Head(hits)

\* (mutant) a tolerance of 2% instead of 1%
UsdcAccepts98(amountUsd, amount) == amount >= amountUsd * 98 * (UsdcUnit \div 100)

\* monitor.js:105 amountUsdc >= payment.amount_usd * 0.99 with amountUsdc =
\* amount / 10^6, on exact amounts: amount >= amount_usd * 99 * 10^6 / 100
UsdcAccepts(amountUsd, amount) == amount >= amountUsd * 99 * (UsdcUnit \div 100)

\* monitor.js:137-140 payment.amount_crypto && amountEth >= expected * 0.995
EthAccepts(row, amount) ==
  /\ amount_crypto(row) # NULL
  /\ amount * 1000 >= amount_crypto(row) * 995

\* monitor.js:96-112 the loop over the logs, with the callbacks it invokes.
\* The loop runs inside the try of lines 88-115: a log whose decoding throws
\* (line 97) leaves the loop for the catch, and the logs after it are not read.
RECURSIVE checkUsdcLogs(_, _, _, _, _)
checkUsdcLogs(st, logs, pending, addressSet, t) ==
  IF logs = << >> THEN st
  ELSE IF Head(logs).to = NULL THEN st
  ELSE LET log == Head(logs)
           payment == findByAddress(st.payments, pending, log.to)
           hit == /\ log.to \in addressSet
                  /\ payment # 0
                  /\ UsdcAccepts(st.payments[payment].amount_usd, log.amount)
       IN checkUsdcLogs(IF hit THEN handlePaymentConfirmed(st, payment, log.hash, t)
                               ELSE st,
                        Tail(logs), pending, addressSet, t)

\* monitor.js:129-148 the loop over one block's transactions
RECURSIVE checkEthTransactions(_, _, _, _, _)
checkEthTransactions(st, txs, pending, addressSet, t) ==
  IF txs = << >> THEN st
  ELSE LET tx == Head(txs)
           payment == findByAddress(st.payments, pending, tx.to)
           hit == /\ tx.amount # 0
                  /\ tx.to \in addressSet
                  /\ payment # 0
                  /\ EthAccepts(st.payments[payment], tx.amount)
       IN checkEthTransactions(IF hit THEN handlePaymentConfirmed(st, payment, tx.hash, t)
                                      ELSE st,
                               Tail(txs), pending, addressSet, t)

\* A free loop slot; a loop asleep between two ticks.
NoLoop == [ pc |-> "none", currentBlock |-> 0, fromBlock |-> 0,
            pending |-> << >>, blockNum |-> 0 ]

Asleep == [ NoLoop EXCEPT !.pc = "sleep" ]

\* _poll() entered _checkNewBlocks and is suspended at `await getBlockNumber`.
InTick == [ NoLoop EXCEPT !.pc = "getBlockNumber" ]

ActiveLoops(c) == { k \in 1..MaxLoops : loops[c][k].pc # "none" }

FreeSlot(c) == CHOOSE k \in 1..MaxLoops : loops[c][k].pc = "none"

usdcOf(ps, pending) == SelectSeq(pending, LAMBDA i : ps[i].crypto = "USDC")

ethOf(ps, pending) == SelectSeq(pending, LAMBDA i : ps[i].crypto = "ETH")

addressSetOf(ps, pending) == { ps[pending[j]].pay_address : j \in 1..Len(pending) }

Max(a, b) == IF a >= b THEN a ELSE b

\* monitor.js:123 the first block of the native scan
ethStart(fromBlock, toBlock) == Max(fromBlock, toBlock - maxRange + 1)

\* ChainMonitor.start up to `await getBlockNumber`
StartCall(c) ==
  /\ starting[c] + Cardinality(ActiveLoops(c)) < MaxLoops
  /\ polling' = [ polling EXCEPT ![c] = TRUE ]
  /\ starting' = [ starting EXCEPT ![c] = @ + 1 ]
  /\ UNCHANGED << ledgerVars, chainVars, lastBlock, loops, scans, solVars >>

\* ChainMonitor.start after the await: the watermark, then _poll() runs up to
\* its first await (or falls through the while when stop() came in between).
StartReturn(c, ok) ==
  /\ starting[c] > 0
  /\ starting' = [ starting EXCEPT ![c] = @ - 1 ]
  /\ lastBlock' = [ lastBlock EXCEPT ![c] = IF ok THEN height[c] ELSE 0 ]
  /\ loops' = IF polling[c]
              THEN [ loops EXCEPT ![c][FreeSlot(c)] = InTick ]
              ELSE loops
  /\ UNCHANGED << ledgerVars, chainVars, polling, scans, solVars >>

\* ChainMonitor.stop
StopCall(c) ==
  /\ polling[c]
  /\ polling' = [ polling EXCEPT ![c] = FALSE ]
  /\ UNCHANGED << ledgerVars, chainVars, lastBlock, starting, loops, scans, solVars >>

\* History of the scans: the blocks fromBlock..toBlock a tick has to cover
\* for an asset, and the blocks whose logs / transactions it has read.
Blocks(asset, fromBlock, toBlock) == { << asset, b >> : b \in fromBlock..toBlock }

InRange(sc, c, asset, fromBlock, toBlock) ==
  [ sc EXCEPT ![c].due = @ \cup Blocks(asset, fromBlock, toBlock) ]

Scanned(sc, c, asset, fromBlock, toBlock) ==
  [ sc EXCEPT ![c].done = @ \cup Blocks(asset, fromBlock, toBlock) ]

\* monitor.js:83 then back in _poll: the tick is over, the loop sleeps.
FinishTick(c, k) ==
  /\ lastBlock' = [ lastBlock EXCEPT ![c] = loops[c][k].currentBlock ]
  /\ loops' = [ loops EXCEPT ![c][k] = Asleep ]

\* monitor.js:77-83 after the USDC part: the native scan, or the end of the tick
AfterUsdc(c, k, ps, sc) ==
  LET l == loops[c][k]
  IN IF ethOf(ps, l.pending) # << >>
     THEN /\ loops' = [ loops EXCEPT ![c][k].pc = "getBlock",
                                     ![c][k].blockNum = ethStart(l.fromBlock, l.currentBlock) ]
          /\ scans' = InRange(sc, c, "ETH", l.fromBlock, l.currentBlock)
          /\ UNCHANGED lastBlock
     ELSE /\ FinishTick(c, k)
          /\ scans' = sc

\* (mutant) the pending rows are not filtered by the monitor's chain
pendingOfAnyChain(ps, c) == getPendingPayments(ps)

\* monitor.js:61 db.getPendingPayments().filter(p => p.chain === this.chainName)
pendingOfChain(ps, c) ==
  SelectSeq(getPendingPayments(ps), LAMBDA i : ps[i].chain = c)

\* _checkNewBlocks from the answer of getBlockNumber to the next await
TickBlockNumber(c, k, ok) ==
  /\ loops[c][k].pc = "getBlockNumber"
  /\ LET currentBlock == height[c]
         pending == pendingOfChain(payments, c)
     IN IF ~ok \/ currentBlock <= lastBlock[c]
        THEN /\ loops' = [ loops EXCEPT ![c][k] = Asleep ]
             /\ UNCHANGED << lastBlock, scans >>
        ELSE IF pending = << >>
        THEN /\ lastBlock' = [ lastBlock EXCEPT ![c] = currentBlock ]
             /\ loops' = [ loops EXCEPT ![c][k] = Asleep ]
             /\ UNCHANGED scans
        ELSE IF usdcOf(payments, pending) # << >> /\ usdcAddress(c)
        THEN /\ loops' = [ loops EXCEPT ![c][k] =
                             [ pc |-> "getLogs", currentBlock |-> currentBlock,
                               fromBlock |-> lastBlock[c] + 1, pending |-> pending,
                               blockNum |-> 0 ] ]
             /\ scans' = InRange(scans, c, "USDC", lastBlock[c] + 1, currentBlock)
             /\ UNCHANGED lastBlock
        ELSE IF ethOf(payments, pending) # << >>
        THEN /\ loops' = [ loops EXCEPT ![c][k] =
                             [ pc |-> "getBlock", currentBlock |-> currentBlock,
                               fromBlock |-> lastBlock[c] + 1, pending |-> pending,
                               blockNum |-> ethStart(lastBlock[c] + 1, currentBlock) ] ]
             /\ scans' = InRange(scans, c, "ETH", lastBlock[c] + 1, currentBlock)
             /\ UNCHANGED lastBlock
        ELSE /\ lastBlock' = [ lastBlock EXCEPT ![c] = currentBlock ]
             /\ loops' = [ loops EXCEPT ![c][k] = Asleep ]
             /\ UNCHANGED scans
  /\ UNCHANGED << ledgerVars, chainVars, polling, starting, solVars >>

\* _checkUsdcTransfers from the answer of getLogs (the logs, or an error that
\* its catch logs) to the next await of the tick
TickLogs(c, k, ok) ==
  /\ loops[c][k].pc = "getLogs"
  /\ LET l == loops[c][k]
         st == IF ok
               THEN checkUsdcLogs(Ledger, getLogs(c, l.fromBlock, l.currentBlock),
                                  usdcOf(payments, l.pending),
                                  addressSetOf(payments, l.pending), now)
               ELSE Ledger
     IN /\ payments' = st.payments
        /\ mails' = st.mails
        /\ nextToken' = st.nextToken
        /\ deliverCalls' = st.deliverCalls
        /\ events' = st.events
        /\ AfterUsdc(c, k, payments,
                     IF ok THEN Scanned(scans, c, "USDC", l.fromBlock, l.currentBlock)
                           ELSE scans)
  /\ UNCHANGED << served, quoted, now, next_index, allocated, checkouts, transporter, fileExists, sweepTick >>
  /\ UNCHANGED << chainVars, polling, starting, solVars >>

\* _checkEthTransfers from the answer of getBlockWithTransactions to the next await
TickBlock(c, k, ok) ==
  /\ loops[c][k].pc = "getBlock"
  /\ LET l == loops[c][k]
         st == IF ok
               THEN checkEthTransactions(Ledger, getBlockTransactions(c, l.blockNum),
                                         ethOf(payments, l.pending),
                                         addressSetOf(payments, l.pending), now)
               ELSE Ledger
     IN /\ payments' = st.payments
        /\ mails' = st.mails
        /\ nextToken' = st.nextToken
        /\ deliverCalls' = st.deliverCalls
        /\ events' = st.events
        /\ scans' = IF ok THEN Scanned(scans, c, "ETH", l.blockNum, l.blockNum)
                           ELSE scans
        /\ IF ok /\ l.blockNum < l.currentBlock
           THEN /\ loops' = [ loops EXCEPT ![c][k].blockNum = @ + 1 ]
                /\ UNCHANGED lastBlock
           ELSE FinishTick(c, k)
  /\ UNCHANGED << served, quoted, now, next_index, allocated, checkouts, transporter, fileExists, sweepTick >>
  /\ UNCHANGED << chainVars, polling, starting, solVars >>

\* (mutant) the while does not test this.polling
SleepEndNoTest(c, k) ==
  /\ loops[c][k].pc = "sleep"
  /\ loops' = [ loops EXCEPT ![c][k] = InTick ]
  /\ UNCHANGED << ledgerVars, chainVars, polling, lastBlock, starting, scans, solVars >>

\* _poll: the sleep is over; the while tests this.polling and either starts
\* the next tick or the loop ends.
SleepEnd(c, k) ==
  /\ loops[c][k].pc = "sleep"
  /\ loops' = [ loops EXCEPT ![c][k] = IF polling[c] THEN InTick ELSE NoLoop ]
  /\ UNCHANGED << ledgerVars, chainVars, polling, lastBlock, starting, scans, solVars >>
\* ------------------------------------------------------ the Solana monitor
\* solana-monitor.js:59 opts.limit
SigLimit == 20

\* A transaction involving SOL_ADDRESS lands on the chain: the balance of the
\* address changes by delta (in units of 10^-4 SOL); err marks a failed one.
SolTransfer(delta, err) ==
  /\ Len(signatures) < MaxTx
  /\ signatures' = Append(signatures, [ delta |-> delta, err |-> err ])
  /\ UNCHANGED << ledgerVars, height, transfers, monitorVars >>

\* connection.getSignaturesForAddress(address, {limit, until}): the signatures
\* newer than `until` (all of them when until is null), newest first, at most limit.
getSignaturesForAddress(until, limit) ==
  LET first == IF until = NULL THEN 1 ELSE until + 1
      count == Len(signatures) - first + 1
      taken == IF count > limit THEN limit ELSE count
  IN [ j \in 1..taken |-> Len(signatures) - j + 1 ]

\* solana-monitor.js:70-75 the working map amount_crypto -> payment, in
\* insertion order; Map.set on a key that is present replaces its value in place.
RECURSIVE buildAmountMap(_, _, _)
buildAmountMap(ps, pending, map) ==
  IF pending = << >> THEN map
  ELSE LET p == Head(pending)
           key == amount_crypto(ps[p])
           present == { j \in 1..Len(map) : map[j].amount = key }
           next == IF key = NULL \/ key = 0 THEN map
                   ELSE IF present = {}
                        THEN Append(map, [ amount |-> key, id |-> p ])
                        ELSE [ j \in 1..Len(map) |->
                                 IF j \in present THEN [ amount |-> key, id |-> p ]
                                                  ELSE map[j] ]
       IN buildAmountMap(ps, Tail(pending), next)

\* solana-monitor.js:103-104 Math.abs(received - expectedAmount) <= expectedAmount * 0.005
SolAccepts(expectedAmount, received) ==
  LET diff == IF received >= expectedAmount THEN received - expectedAmount
                                            ELSE expectedAmount - received
  IN diff * 1000 <= expectedAmount * 5

\* solana-monitor.js:102-112 the first entry of the map within tolerance, 0 for none
matchAmount(map, received) ==
  LET hits == { j \in 1..Len(map) : SolAccepts(map[j].amount, received) }
  IN IF hits = {} THEN 0 ELSE CHOOSE j \in hits : \A h \in hits : j <= h

\* solana-monitor.js:77-78 the for loop skips the failed signatures without awaiting
RECURSIVE skipFailed(_)
skipFailed(sigs) ==
  IF sigs = << >> THEN sigs
  ELSE IF signatures[Head(sigs)].err THEN skipFailed(Tail(sigs))
  ELSE sigs

SolNone == [ pc |-> "none", pending |-> << >>, amountMap |-> << >>,
             sigs |-> << >>, calls |-> << >> ]

\* start() suspended at `await getSignaturesForAddress(limit: 1)`
SolStarting == [ SolNone EXCEPT !.pc = "start" ]

SolAsleep == [ SolNone EXCEPT !.pc = "sleep" ]

\* _poll enters _checkNewTransactions: without pending SOL rows the tick returns
\* at once and the loop sleeps, otherwise it awaits the new signatures.
SolTickBegin ==
  LET pending == SelectSeq(getPendingPayments(payments),
                           LAMBDA i : payments[i].crypto = "SOL" /\ payments[i].chain = "solana")
  IN IF pending = << >> THEN SolAsleep
     ELSE [ SolNone EXCEPT !.pc = "getSignatures", !.pending = pending ]

\* The for loop of the tick from one signature on: the next getTransaction, or
\* the end of the tick.
SolContinue(l, sigs) ==
  LET rest == skipFailed(sigs)
  IN IF rest = << >> THEN SolAsleep
     ELSE [ l EXCEPT !.pc = "getTransaction", !.sigs = rest ]

\* History of the Solana ticks: a tick has begun (_checkNewTransactions
\* entered), getTransaction(sig) has answered (ok) or thrown (~ok).
TickBegun(h) == [ h EXCEPT !.ticks = ~@ ]

Answered(h, sig, ok) == [ h EXCEPT !.answers = Append(@, [ sig |-> sig, ok |-> ok ]) ]

\* SolanaMonitor.start after its await: the newest signature becomes the
\* watermark, then _poll() runs up to its first await.
SolStartReturn(ok) ==
  /\ solLoop.pc = "start"
  /\ lastSignature' = IF ok /\ signatures # << >> THEN Len(signatures) ELSE lastSignature
  /\ solLoop' = IF solPolling THEN SolTickBegin ELSE SolNone
  /\ solHist' = IF solPolling THEN TickBegun(solHist) ELSE solHist
  /\ UNCHANGED << ledgerVars, chainVars, polling, lastBlock, starting, loops, scans,
                  solPolling >>

\* SolanaMonitor.stop
SolStop ==
  /\ solPolling
  /\ solPolling' = FALSE
  /\ UNCHANGED << ledgerVars, chainVars, polling, lastBlock, starting, loops, scans,
                  lastSignature, solLoop, solHist >>

\* _poll: the sleep is over, the while tests this.polling.
SolSleepEnd ==
  /\ solLoop.pc = "sleep"
  /\ solLoop' = IF solPolling THEN SolTickBegin ELSE SolNone
  /\ solHist' = IF solPolling THEN TickBegun(solHist) ELSE solHist
  /\ UNCHANGED << ledgerVars, chainVars, polling, lastBlock, starting, loops, scans,
                  solPolling, lastSignature >>

\* (mutant) an error of getSignaturesForAddress is not caught and ends _poll
SolTickSignaturesUncaught(ok) ==
  /\ solLoop.pc = "getSignatures"
  /\ LET sigs == getSignaturesForAddress(lastSignature, SigLimit)
     IN IF ~ok
        THEN /\ solLoop' = SolNone
             /\ UNCHANGED lastSignature
        ELSE IF sigs = << >>
        THEN /\ solLoop' = SolAsleep
             /\ UNCHANGED lastSignature
        ELSE /\ lastSignature' = Head(sigs)
             /\ solLoop' = SolContinue(
                  [ solLoop EXCEPT !.amountMap =
                      buildAmountMap(payments, solLoop.pending, << >>) ], sigs)
  /\ UNCHANGED << ledgerVars, chainVars, polling, lastBlock, starting, loops, scans,
                  solPolling, solHist >>

\* (mutant) the high-water mark is not moved to the newest signature returned
SolTickSignaturesKeepsMark(ok) ==
  /\ solLoop.pc = "getSignatures"
  /\ LET sigs == getSignaturesForAddress(lastSignature, SigLimit)
     IN IF ~ok \/ sigs = << >>
        THEN /\ solLoop' = SolAsleep
             /\ UNCHANGED lastSignature
        ELSE /\ UNCHANGED lastSignature
             /\ solLoop' = SolContinue(
                  [ solLoop EXCEPT !.amountMap =
                      buildAmountMap(payments, solLoop.pending, << >>) ], sigs)
  /\ UNCHANGED << ledgerVars, chainVars, polling, lastBlock, starting, loops, scans,
                  solPolling, solHist >>

\* _checkNewTransactions from the answer of getSignaturesForAddress (an error
\* ends the tick in _poll's catch) to the first getTransaction.
SolTickSignatures(ok) ==
  /\ solLoop.pc = "getSignatures"
  /\ LET sigs == getSignaturesForAddress(lastSignature, SigLimit)
     IN IF ~ok \/ sigs = << >>
        THEN /\ solLoop' = SolAsleep
             /\ UNCHANGED lastSignature
        ELSE /\ lastSignature' = Head(sigs)
             /\ solLoop' = SolContinue(
                  [ solLoop EXCEPT !.amountMap =
                      buildAmountMap(payments, solLoop.pending, << >>) ], sigs)
  /\ UNCHANGED << ledgerVars, chainVars, polling, lastBlock, starting, loops, scans,
                  solPolling, solHist >>

\* _checkNewTransactions from the answer of getTransaction to the next await:
\* the balance delta, the match in the working map with its callback and
\* delete, then the rest of the for loop. An error is caught per signature.
SolTickTransaction(ok) ==
  /\ solLoop.pc = "getTransaction"
  /\ LET sig == Head(solLoop.sigs)
         received == signatures[sig].delta
         j == IF ok /\ received > 0 THEN matchAmount(solLoop.amountMap, received) ELSE 0
         st == IF j = 0 THEN Ledger
               ELSE handlePaymentConfirmed(Ledger, solLoop.amountMap[j].id, sig, now)
         l == IF j = 0 THEN solLoop
              ELSE [ solLoop EXCEPT !.amountMap = RemoveAt(@, j),
                                    !.calls = Append(@, << sig, solLoop.amountMap[j].id >>) ]
     IN /\ payments' = st.payments
        /\ mails' = st.mails
        /\ nextToken' = st.nextToken
        /\ deliverCalls' = st.deliverCalls
        /\ events' = st.events
        /\ solLoop' = SolContinue(l, Tail(solLoop.sigs))
        /\ solHist' = Answered(solHist, sig, ok)
  /\ UNCHANGED << served, quoted, now, next_index, allocated, checkouts, transporter, fileExists,
                  sweepTick >>
  /\ UNCHANGED << chainVars, polling, lastBlock, starting, loops, scans,
                  solPolling, lastSignature >>
\* ------------------------------------------------------- specifications
vars == << now, next_index, allocated, payments, checkouts, nextToken,
           transporter, fileExists, mails, deliverCalls, events, sweepTick,
           height, transfers, polling, lastBlock, starting, loops,
           quoted, served, scans, signatures, solPolling, lastSignature, solLoop, solHist >>

LedgerInit ==
  /\ now = 0
  /\ next_index = 0
  /\ allocated = << >>
  /\ payments = << >>
  /\ checkouts = << >>
  /\ nextToken = 0
  /\ mails = << >>
  /\ deliverCalls = << >>
  /\ events = {}
  /\ sweepTick = FALSE
  /\ quoted = << >>
  /\ served = << >>

ChainInit ==
  /\ height = [ c \in EvmChains |-> 1 ]
  /\ transfers = [ c \in EvmChains |-> << >> ]
  /\ signatures = << >>

\* The monitors as constructed (monitor.js:12-20).
MonitorInit ==
  /\ polling = [ c \in EvmChains |-> FALSE ]
  /\ lastBlock = [ c \in EvmChains |-> NULL ]
  /\ starting = [ c \in EvmChains |-> 0 ]
  /\ loops = [ c \in EvmChains |-> [ k \in 1..MaxLoops |-> NoLoop ] ]
  /\ scans = [ c \in EvmChains |-> [ due |-> {}, done |-> {} ] ]

\* The Solana monitor as constructed (solana-monitor.js:9-16).
SolanaInit ==
  /\ solPolling = FALSE
  /\ lastSignature = NULL
  /\ solLoop = SolNone
  /\ solHist = [ answers |-> << >>, ticks |-> FALSE ]

\* The Solana monitor after app.listen's callback: start() awaits the newest signature.
SolanaStarted ==
  /\ solPolling = TRUE
  /\ lastSignature = NULL
  /\ solLoop = SolStarting
  /\ solHist = [ answers |-> << >>, ticks |-> FALSE ]

\* The server after app.listen's callback (server.js:393-430): the base monitor
\* has been started once and is never started or stopped again.
Init ==
  /\ LedgerInit
  /\ ChainInit
  /\ transporter \in BOOLEAN
  /\ fileExists \in BOOLEAN
  /\ polling = [ c \in EvmChains |-> c = "base" ]
  /\ lastBlock = [ c \in EvmChains |-> NULL ]
  /\ starting = [ c \in EvmChains |-> IF c = "base" THEN 1 ELSE 0 ]
  /\ loops = [ c \in EvmChains |-> [ k \in 1..MaxLoops |-> NoLoop ] ]
  /\ scans = [ c \in EvmChains |-> [ due |-> {}, done |-> {} ] ]
  /\ SolanaStarted

\* Amounts a payer sends for a $24 / $14 product: 99% of the price, one unit less.
UsdcAmounts == { 23760000, 23759999, 13860000 }

Next ==
  \/ ClockTick
  \/ /\ Len(payments) + Len(checkouts) < MaxPayments
     /\ \E m \in VALID_METHODS, s \in Slugs : CheckoutBegin(m, s)
  \/ \E k \in 1..MaxPayments : CheckoutPriceUnavailable(k)
  \/ \E k \in 1..MaxPayments : CheckoutResume(k, 240)
  \/ ExpirySweep
  \/ \E id \in 1..MaxPayments, ok \in BOOLEAN : MailReturn(id, ok)
  \/ \E token \in 1..(2 * MaxTx), s \in Slugs : Download(token, s)
  \/ MineBlock("base")
  \/ \E id \in 1..MaxPayments, a \in UsdcAmounts : SendTransfer("base", "USDC", id, a)
  \/ \E ok \in BOOLEAN : StartReturn("base", ok)
  \/ \E ok \in BOOLEAN : TickBlockNumber("base", 1, ok)
  \/ \E ok \in BOOLEAN : TickLogs("base", 1, ok)
  \/ \E ok \in BOOLEAN : TickBlock("base", 1, ok)
  \/ SleepEnd("base", 1)

Spec == Init /\ [][Next]_vars

\* The same server with a failure-free environment (no RPC error, no mail
\* error, archives present) and USDC-on-base checkouts of one product only.
InitNoFaults ==
  /\ Init
  /\ fileExists

NextNoFaults ==
  \/ ClockTick
  \/ /\ Len(payments) + Len(checkouts) < MaxPayments
     /\ CheckoutBegin(<<"USDC", "base">>, "crypto-payment-engine")
  \/ \E k \in 1..MaxPayments : CheckoutResume(k, 240)
  \/ ExpirySweep
  \/ \E id \in 1..MaxPayments : MailReturn(id, TRUE)
  \/ \E token \in 1..(2 * MaxTx) : Download(token, "crypto-payment-engine")
  \/ MineBlock("base")
  \/ \E id \in 1..MaxPayments : SendTransfer("base", "USDC", id, 23760000)
  \/ StartReturn("base", TRUE)
  \/ TickBlockNumber("base", 1, TRUE)
  \/ TickLogs("base", 1, TRUE)
  \/ SleepEnd("base", 1)

SpecNoFaults == InitNoFaults /\ [][NextNoFaults]_vars

\* ---------------------------------------------------------------------
\* The address allocator under concurrent requests: checkouts of every
\* method, suspended together at the price lookup, and
\* x402 quotes, resumed in any order.
InitAlloc == Init

NextAlloc ==
  \/ ClockTick
  \/ /\ Len(payments) + Len(checkouts) < MaxRequests
     /\ Len(allocated) + Len(checkouts) < MaxAlloc
     /\ \E m \in VALID_METHODS : CheckoutBegin(m, "crypto-payment-engine")
  \/ \E k \in 1..MaxRequests : CheckoutPriceUnavailable(k)
  \/ \E k \in 1..MaxRequests : CheckoutResume(k, 240)
  \/ /\ Len(allocated) + Len(checkouts) < MaxAlloc
     /\ X402Quote("crypto-payment-engine")

SpecAlloc == InitAlloc /\ [][NextAlloc]_vars

\* ---------------------------------------------------------------------
\* One monitor as constructed, under any sequence of start() and stop()
\* calls, with checkouts on its chain so that ticks have rows to scan.
InitLifecycle ==
  /\ LedgerInit
  /\ ChainInit
  /\ MonitorInit
  /\ SolanaInit
  /\ transporter = FALSE
  /\ fileExists = TRUE

NextLifecycle ==
  \/ StartCall("base")
  \/ StopCall("base")
  \/ \E ok \in BOOLEAN : StartReturn("base", ok)
  \/ MineBlock("base")
  \/ /\ Len(payments) + Len(checkouts) < MaxPayments
     /\ \E m \in {<<"USDC", "base">>, <<"ETH", "base">>} :
          CheckoutBegin(m, "crypto-payment-engine")
  \/ \E k \in 1..MaxPayments : CheckoutResume(k, 240)
  \/ \E k \in 1..MaxLoops, ok \in BOOLEAN : TickBlockNumber("base", k, ok)
  \/ \E k \in 1..MaxLoops, ok \in BOOLEAN : TickLogs("base", k, ok)
  \/ \E k \in 1..MaxLoops, ok \in BOOLEAN : TickBlock("base", k, ok)
  \/ \E k \in 1..MaxLoops : SleepEnd("base", k)

SpecLifecycle == InitLifecycle /\ [][NextLifecycle]_vars

\* ---------------------------------------------------------------------
\* Both kinds of monitor under stop(): the base monitor and the Solana
\* monitor as the server started them, each stopped at any moment and not
\* started again. An RPC call that was issued is answered (or fails) and a
\* timer that was set fires: the steps of a loop are weakly fair.
InitStop ==
  /\ Init
  /\ ~transporter
  /\ fileExists

LoopStep(c, k) ==
  \/ \E ok \in BOOLEAN : TickBlockNumber(c, k, ok)
  \/ \E ok \in BOOLEAN : TickLogs(c, k, ok)
  \/ \E ok \in BOOLEAN : TickBlock(c, k, ok)
  \/ SleepEnd(c, k)

SolLoopStep ==
  \/ \E ok \in BOOLEAN : SolStartReturn(ok)
  \/ \E ok \in BOOLEAN : SolTickSignatures(ok)
  \/ SolSleepEnd

NextStop ==
  \/ StopCall("base")
  \/ \E ok \in BOOLEAN : StartReturn("base", ok)
  \/ MineBlock("base")
  \/ /\ Len(payments) + Len(checkouts) < MaxPayments
     /\ \E m \in {<<"USDC", "base">>, <<"ETH", "base">>, <<"SOL", "solana">>} :
          CheckoutBegin(m, "crypto-payment-engine")
  \/ \E k \in 1..MaxPayments : CheckoutResume(k, 480)
  \/ \E ok \in BOOLEAN : TickBlockNumber("base", 1, ok)
  \/ \E ok \in BOOLEAN : TickLogs("base", 1, ok)
  \/ \E ok \in BOOLEAN : TickBlock("base", 1, ok)
  \/ SleepEnd("base", 1)
  \/ SolStop
  \/ \E ok \in BOOLEAN : SolStartReturn(ok)
  \/ \E ok \in BOOLEAN : SolTickSignatures(ok)
  \/ SolSleepEnd

SpecStop ==
  /\ InitStop
  /\ [][NextStop]_vars
  /\ WF_vars(\E ok \in BOOLEAN : StartReturn("base", ok))
  /\ WF_vars(LoopStep("base", 1))
  /\ WF_vars(SolLoopStep)

\* ---------------------------------------------------------------------
\* USDC on base end to end: checkouts of the $24 product, transfers around
\* the tolerance edge, the base monitor with an RPC endpoint that answers,
\* delivery by mail (which may fail) or by download under either slug.
UsdcEdgeAmounts == { 23760000, 23736000, 23900000 }

InitUsdc == Init

NextUsdc ==
  \/ /\ Len(payments) + Len(checkouts) < MaxPayments
     /\ CheckoutBegin(<<"USDC", "base">>, "crypto-payment-engine")
  \/ \E k \in 1..MaxPayments : CheckoutResume(k, 240)
  \/ \E id \in 1..MaxPayments, ok \in BOOLEAN : MailReturn(id, ok)
  \/ \E token \in 1..(2 * MaxTx), sl \in Slugs : Download(token, sl)
  \/ MineBlock("base")
  \/ \E id \in 1..MaxPayments, a \in UsdcEdgeAmounts : SendTransfer("base", "USDC", id, a)
  \/ StartReturn("base", TRUE)
  \/ TickBlockNumber("base", 1, TRUE)
  \/ TickLogs("base", 1, TRUE)
  \/ SleepEnd("base", 1)

SpecUsdc == InitUsdc /\ [][NextUsdc]_vars

\* The same USDC checkout on base, with a node that also returns entries
\* that do not decode among the logs of a block.
InitMalformed == InitUsdc

NextMalformed ==
  \/ NextUsdc
  \/ SendMalformedLog("base")

SpecMalformed == InitMalformed /\ [][NextMalformed]_vars

\* ---------------------------------------------------------------------
\* SOL checkouts at two oracle prices and the Solana monitor, started by the
\* server, with an RPC endpoint that may fail on the signature list.
SolPrices == { 48, 480 }

SolDeltas == { 500, 503 }

InitSolana == Init

NextSolana ==
  \/ /\ Len(payments) + Len(checkouts) < MaxRequests
     /\ CheckoutBegin(<<"SOL", "solana">>, "crypto-payment-engine")
  \/ \E k \in 1..MaxRequests, p \in SolPrices : CheckoutResume(k, p)
  \/ \E d \in SolDeltas, err \in BOOLEAN : SolTransfer(d, err)
  \/ \E ok \in BOOLEAN : SolStartReturn(ok)
  \/ \E ok \in BOOLEAN : SolTickSignatures(ok)
  \/ SolTickTransaction(TRUE)
  \/ SolSleepEnd

SpecSolana == InitSolana /\ [][NextSolana]_vars

\* ---------------------------------------------------------------------
\* The three monitors side by side, as app.listen starts them: checkouts in
\* USDC on base, ETH on ethereum and SOL, USDC transfers on base and ETH
\* transfers on ethereum to the pay address of a base intent (the same
\* derived address exists on both EVM chains), RPC calls that always answer.
InitChains ==
  /\ LedgerInit
  /\ ChainInit
  /\ transporter = FALSE
  /\ fileExists = TRUE
  /\ polling = [ c \in EvmChains |-> TRUE ]
  /\ lastBlock = [ c \in EvmChains |-> NULL ]
  /\ starting = [ c \in EvmChains |-> 1 ]
  /\ loops = [ c \in EvmChains |-> [ k \in 1..MaxLoops |-> NoLoop ] ]
  /\ scans = [ c \in EvmChains |-> [ due |-> {}, done |-> {} ] ]
  /\ SolanaStarted

NextChains ==
  \/ /\ Len(payments) + Len(checkouts) < MaxRequests
     /\ \E m \in VALID_METHODS \ { <<"ETH", "base">> } :
          CheckoutBegin(m, "crypto-payment-engine")
  \/ \E k \in 1..MaxRequests : CheckoutResume(k, 240)
  \/ \E c \in EvmChains : MineBlock(c)
  \/ \E id \in Ids : /\ payments[id].chain = "base"
                      /\ SendTransfer("base", "USDC", id, 24 * UsdcUnit)
  \/ \E id \in Ids : /\ payments[id].chain = "base"
                      /\ SendTransfer("ethereum", "ETH", id, 1000)
  \/ \E c \in EvmChains : StartReturn(c, TRUE)
  \/ \E c \in EvmChains : TickBlockNumber(c, 1, TRUE)
  \/ TickLogs("base", 1, TRUE)
  \/ TickBlock("ethereum", 1, TRUE)
  \/ \E c \in EvmChains : SleepEnd(c, 1)
  \/ SolStartReturn(TRUE)
  \/ SolTickSignatures(TRUE)
  \/ SolSleepEnd

SpecChains == InitChains /\ [][NextChains]_vars

\* The same SOL checkouts, with a node whose getTransaction may also fail.
InitSolanaFaults == InitSolana

NextSolanaFaults ==
  \/ NextSolana
  \/ SolTickTransaction(FALSE)

SpecSolanaFaults == InitSolanaFaults /\ [][NextSolanaFaults]_vars

\* ---------------------------------------------------------------------
\* ETH checkouts on base and the native scan of the base monitor, with an
\* RPC endpoint that answers and bursts of blocks between two polls.
EthAmounts == { 994, 995, 1000 }

InitEth == Init

NextEth ==
  \/ /\ Len(payments) + Len(checkouts) < MaxPayments
     /\ CheckoutBegin(<<"ETH", "base">>, "crypto-payment-engine")
  \/ \E k \in 1..MaxPayments : CheckoutResume(k, 240)
  \/ MineBlock("base")
  \/ \E n \in 2..(maxRange + 1) : MineBlocks("base", n)
  \/ \E id \in 1..MaxPayments, a \in EthAmounts : SendTransfer("base", "ETH", id, a)
  \/ StartReturn("base", TRUE)
  \/ TickBlockNumber("base", 1, TRUE)
  \/ TickBlock("base", 1, TRUE)
  \/ SleepEnd("base", 1)

SpecEth == InitEth /\ [][NextEth]_vars
\* ================================================================ claims
EvmRows == { i \in Ids : payments[i].crypto # "SOL" }

\* C1: for every pending intent, a second invocation of the confirmation (same
\* or different txRef) is a no-op: an invocation of confirmPayment on a row
\* that is already confirmed (or delivered) leaves the row exactly as the first
\* invocation set it.
C1_SecondConfirmIsNoOp ==
  \A e \in events :
    (e.op = "confirmPayment" /\ e.from \in {"confirmed", "delivered"}) => ~e.changed

\* C2: every status change of an intent is pending->confirmed,
\* confirmed->delivered or pending->expired; nothing returns to pending and
\* delivered and expired are terminal.
C2_StatusTransitions ==
  \A e \in events :
    e.from # e.to =>
      << e.from, e.to >> \in { << "pending", "confirmed" >>,
                               << "confirmed", "delivered" >>,
                               << "pending", "expired" >> }

\* C3: when a monitor tick and the expiry sweep act on the same intent, the
\* first transition wins: an intent the sweep expired stays expired when the
\* callback of the tick comes later, and an intent the callback confirmed is
\* not expired by a later sweep.
C3_FirstTransitionWins ==
  [][ \A i \in Ids :
        /\ payments[i].status = "expired" => payments'[i].status = "expired"
        /\ payments[i].status \in {"confirmed", "delivered"} =>
             payments'[i].status # "expired" ]_vars

\* C4: tx_hash and download_token are both unset or both set, they are set
\* exactly when status is confirmed or delivered, and they are written only by
\* the pending->confirmed transition.
C4_SetTogether ==
  \A i \in Ids :
    /\ (payments[i].tx_hash = NULL) <=> (payments[i].download_token = NULL)
    /\ (payments[i].tx_hash # NULL) <=> (payments[i].status \in {"confirmed", "delivered"})

C4_RefAndCredential ==
  /\ C4_SetTogether
  /\ \A e \in events : e.op = "confirmPayment" => e.from = "pending"

\* C5: one pass of the expiry sweep sets status to expired for exactly the
\* intents that are pending and were created before now - timeout, and leaves
\* every other intent completely unchanged.
C5_SweepExact ==
  [][ sweepTick' # sweepTick =>
        /\ Len(payments') = Len(payments)
        /\ \A i \in Ids :
             payments'[i] =
               IF payments[i].status = "pending" /\ payments[i].created_at < now - TimeoutMs
               THEN [ payments[i] EXCEPT !.status = "expired" ]
               ELSE payments[i] ]_vars

\* C5 witness: a pass of the sweep has expired an intent.
C5_Witness ==
  /\ sweepTick
  /\ \E i \in Ids : payments[i].status = "expired"

\* C6: markDelivered may be applied any number of times to a confirmed intent;
\* only the first application sets delivered_at, every later one leaves
\* delivered_at and status unchanged.
C6_DeliveredOnce ==
  \A e \in events :
    (e.op = "markDelivered" /\ e.from = "delivered") => ~e.changed

\* C7: created_at, confirmed_at and delivered_at are each written at most once
\* (once set they never change) and satisfy created_at <= confirmed_at <=
\* delivered_at whenever set; delivered_at is never set without confirmed_at.
C7_Timestamps ==
  [][ \A i \in Ids :
        /\ payments'[i].created_at = payments[i].created_at
        /\ payments[i].confirmed_at # NULL =>
             payments'[i].confirmed_at = payments[i].confirmed_at
        /\ payments[i].delivered_at # NULL =>
             payments'[i].delivered_at = payments[i].delivered_at
        /\ payments'[i].confirmed_at # NULL =>
             payments'[i].created_at <= payments'[i].confirmed_at
        /\ payments'[i].delivered_at # NULL =>
             /\ payments'[i].confirmed_at # NULL
             /\ payments'[i].confirmed_at <= payments'[i].delivered_at ]_vars

\* C8: the allocations of an address index, issued by requests suspended and
\* resumed in any interleaving, return distinct, strictly increasing,
\* contiguous indices (no duplicate, no gap), and no two EVM intents share an
\* address_index or a pay_address.
C8_AllocationsContiguous ==
  /\ \A j \in 1..Len(allocated) : allocated[j] = allocated[1] + (j - 1)
  /\ \A i \in EvmRows : \E j \in 1..Len(allocated) :
       payments[i].address_index = allocated[j]
  /\ \A i, j \in EvmRows :
       i # j => /\ payments[i].address_index # payments[j].address_index
                /\ payments[i].pay_address # payments[j].pay_address

\* C8 witness: three allocations were made, two of them for EVM intents whose
\* checkouts were answered in the same run.
C8_Witness ==
  /\ Len(allocated) >= 3
  /\ Cardinality(EvmRows) >= 2

\* C9: deliverProduct is invoked once per intent after confirmation, never a
\* second time.
C9_DeliveredOncePerIntent ==
  \A i \in Ids : deliverCalls[i] <= 1

\* C10: under any sequence of start() and stop() calls a monitor has at most
\* one poll loop, and no two of its ticks overlap.
TickPcs == { "getBlockNumber", "getLogs", "getBlock" }

C10_OneLoopNoOverlap ==
  \A c \in EvmChains :
    /\ polling[c] \in BOOLEAN
    /\ Cardinality(ActiveLoops(c)) <= 1
    /\ Cardinality({ k \in 1..MaxLoops : loops[c][k].pc \in TickPcs }) <= 1

\* C11: after stop() on a running monitor, with no later start(): a tick in
\* flight runs to its end (stop interrupts nothing), the flag is tested where
\* the loop wakes up for its next iteration, no new tick begins while the flag
\* is down, and every poll loop of the monitor eventually exits.
C11_StopEndsLoop ==
  /\ [][ \A k \in 1..MaxLoops :
          LET pc == loops["base"][k].pc
              pcNext == loops'["base"][k].pc
          IN /\ (pcNext = "getBlockNumber" /\ pc # "getBlockNumber") => polling["base"]
             /\ pc \in TickPcs => pcNext \in TickPcs \cup {"sleep"}
             /\ (pcNext = "none" /\ pc # "none") => (pc = "sleep" /\ ~polling["base"]) ]_vars
  /\ [][ /\ (solLoop'.pc = "getSignatures" /\ solLoop.pc \in {"start", "sleep"}) => solPolling
         /\ solLoop.pc \in {"getSignatures", "getTransaction"} =>
              solLoop'.pc \in {"getSignatures", "getTransaction", "sleep"}
         /\ (solLoop'.pc = "none" /\ solLoop.pc # "none") =>
              (solLoop.pc \in {"start", "sleep"} /\ ~solPolling) ]_vars
  /\ <>[](~polling["base"]) =>
       <>[](ActiveLoops("base") = {} /\ starting["base"] = 0)
  /\ <>[](~solPolling) => <>[](solLoop.pc = "none")

\* C11 witness: stop() came while a tick of the base monitor was in flight,
\* and the Solana loop has exited after its stop().
C11_Witness ==
  /\ ~polling["base"]
  /\ \E k \in 1..MaxLoops : loops["base"][k].pc \in {"getLogs", "getBlock"}
  /\ ~solPolling
  /\ solLoop.pc = "none"
  /\ solHist.ticks

\* The tick of the base monitor reads the answer of getLogs in this step.
LogsStep == loops["base"][1].pc = "getLogs" /\ loops'["base"][1].pc # "getLogs"

\* The logs of that answer that go to the pay address of row i.
LogsTo(i) ==
  SelectSeq(getLogs("base", loops["base"][1].fromBlock, loops["base"][1].currentBlock),
            LAMBDA x : x.to = payments[i].pay_address)

\* perMille thousandths of the expected USDC amount of a row, in units of 10^-6 USDC
ExpectedShare(i, perMille) == payments[i].amount_usd * perMille * (UsdcUnit \div 1000)

\* C12: for a pending USDC intent of the tick, each transfer log to its
\* pay_address invokes the callback iff its amount is at least 99% of the
\* expected amount: a log of exactly 99.0% is accepted, one of 98.9% is
\* rejected, and when every log is rejected the intent is left as it was.
C12_UsdcTolerance ==
  [][ LogsStep =>
        \A j \in 1..Len(loops["base"][1].pending) :
          LET i == loops["base"][1].pending[j]
              logs == LogsTo(i)
              accepted == SelectSeq(logs, LAMBDA x : x.amount >= ExpectedShare(i, 990))
          IN payments[i].crypto = "USDC" =>
               /\ deliverCalls'[i] = deliverCalls[i] + Len(accepted)
               /\ \A n \in 1..Len(logs) :
                    /\ logs[n].amount = ExpectedShare(i, 990) => deliverCalls'[i] > deliverCalls[i]
                    /\ logs[n].amount = ExpectedShare(i, 989) => Len(accepted) < Len(logs)
               /\ Len(accepted) = 0 => payments'[i] = payments[i] ]_vars

\* C12 witness: a transfer of exactly 99.0% confirmed an intent, after an
\* earlier transfer of 98.9% to the same address had been read and rejected.
C12_Witness ==
  \E i \in Ids :
    /\ payments[i].tx_hash # NULL
    /\ transfers["base"][payments[i].tx_hash].amount = ExpectedShare(i, 990)
    /\ deliverCalls[i] = 1
    /\ \E n \in 1..Len(transfers["base"]) :
         /\ transfers["base"][n].to = payments[i].pay_address
         /\ transfers["base"][n].amount = ExpectedShare(i, 989)
         /\ n < payments[i].tx_hash

\* C15: a transfer log of 23.9 USDC to the derived address of a pending $24
\* USDC intent, read by a tick, leaves the intent confirmed (or already
\* delivered by the callback's own delivery) with tx_hash and a download_token
\* set; and a markDelivered applied to the confirmed intent afterwards leaves
\* it delivered with the same token.
C15_UsdcEndToEnd ==
  [][ \A i \in Ids :
        /\ ( /\ LogsStep
             /\ \E j \in 1..Len(loops["base"][1].pending) : loops["base"][1].pending[j] = i
             /\ payments[i].crypto = "USDC"
             /\ payments[i].amount_usd = 24
             /\ \E n \in 1..Len(LogsTo(i)) : LogsTo(i)[n].amount = 23900000 )
           => /\ payments'[i].status \in {"confirmed", "delivered"}
              /\ payments'[i].tx_hash # NULL
              /\ payments'[i].download_token # NULL
        /\ ( /\ payments[i].status = "confirmed"
             /\ payments'[i].delivered_at # payments[i].delivered_at )
           => /\ payments'[i].status = "delivered"
              /\ payments'[i].download_token = payments[i].download_token
              /\ payments'[i].download_token # NULL ]_vars

\* C15 witness: the $24 intent was confirmed by a log of 23.9 USDC, its mail
\* was sent, and the intent is delivered.
C15_Witness ==
  /\ transporter
  /\ \E i \in Ids :
       /\ payments[i].amount_usd = 24
       /\ payments[i].status = "delivered"
       /\ payments[i].download_token # NULL
       /\ transfers["base"][payments[i].tx_hash].amount = 23900000

\* The Solana tick reads the answer of getTransaction in this step.
TransactionStep == solLoop.pc = "getTransaction"

\* C13: in one Solana tick the callback is invoked at most once per signature
\* and at most once per intent, and an intent that was matched is no longer
\* in the working map.
C13_OneMatchPerTick ==
  /\ \A a, b \in 1..Len(solLoop.calls) :
       a # b => /\ solLoop.calls[a][1] # solLoop.calls[b][1]
                /\ solLoop.calls[a][2] # solLoop.calls[b][2]
  /\ \A a \in 1..Len(solLoop.calls), j \in 1..Len(solLoop.amountMap) :
       solLoop.amountMap[j].id # solLoop.calls[a][2]

\* C14: with a pending SOL intent quoted 0.05 SOL and another quoted 0.5 SOL
\* in the tick, a transaction with a balance delta of 0.0503 SOL on the shared
\* address confirms the 0.05 intent and leaves the 0.5 intent as it was.
C14_SolEndToEnd ==
  [][ \A a, b \in 1..Len(solLoop.pending) :
        LET i == solLoop.pending[a]
            j == solLoop.pending[b]
        IN ( /\ TransactionStep
             /\ signatures[Head(solLoop.sigs)].delta = 503
             /\ quoted[i] = 500
             /\ quoted[j] = 5000 )
           => /\ deliverCalls'[i] = deliverCalls[i] + 1
              /\ payments'[i].status \in {"confirmed", "delivered"}
              /\ payments'[j] = payments[j] ]_vars

\* C16: every intent carries the amount_usd and the amount_crypto its
\* checkout computed, from creation on: every read of the row returns these
\* two values, whatever confirm, deliver or expire did to the row since.
C16_AmountsRecorded ==
  \A i \in Ids :
    /\ payments[i].amount_usd = price_usd(payments[i].product_slug)
    /\ amount_crypto(payments[i]) = quoted[i]

\* C17: after a confirmation whose delivery failed (deliverProduct returned
\* false, or the mail send threw) the intent is still confirmed (or delivered
\* by another path) with its tx_hash and download_token, the token still
\* finds the intent, and the return of a mail send changes nothing of the row
\* but what markDelivered writes.
C17_ConfirmationSurvives ==
  [][ \A i \in Ids :
        /\ deliverCalls'[i] > 0 =>
             /\ payments'[i].status \in {"confirmed", "delivered"}
             /\ payments'[i].tx_hash # NULL
             /\ payments'[i].download_token # NULL
             /\ getPaymentByToken(payments', payments'[i].download_token) = i
        /\ mails'[i] < mails[i] =>
             /\ payments'[i].tx_hash = payments[i].tx_hash
             /\ payments'[i].download_token = payments[i].download_token
             /\ \/ payments'[i] = payments[i]
                \/ payments'[i] = markDelivered(payments, i, now)[i] ]_vars

\* C17 witness: the archive exists and a mailer is configured, the mail of a
\* confirmed intent failed, and the intent is confirmed and found by its token.
C17_Witness ==
  /\ transporter
  /\ fileExists
  /\ \E i \in Ids :
       /\ deliverCalls[i] > 0
       /\ mails[i] = 0
       /\ payments[i].status = "confirmed"
       /\ getPaymentByToken(payments, payments[i].download_token) = i

\* C18: a block that a tick had in its range and whose scan failed on an RPC
\* error is not below the watermark: the watermark never passes a block of a
\* tick's range that was not read.
C18_WatermarkKeepsUnscanned ==
  \A c \in EvmChains : \A x \in scans[c].due :
    x[2] <= lastBlock[c] => x \in scans[c].done

\* C19: a block of a tick's range that the native scan left out because of
\* the 5-block cap is still above the watermark, so that a later tick scans
\* it: no block is below the watermark without its transactions having
\* been read while native intents were pending.
C19_CappedBlocksScannedLater ==
  \A b \in 1..(MaxBlock + maxRange) :
    (<< "ETH", b >> \in scans["base"].due /\ b <= lastBlock["base"])
      => << "ETH", b >> \in scans["base"].done

\* The tick of the base monitor reads a block's transactions in this step.
BlockStep == loops["base"][1].pc = "getBlock"

\* C20: for a pending ETH intent of the tick, a transaction of the scanned
\* block to its pay_address with a value of at least 99.5% of the intent's
\* amount_crypto invokes the callback for that intent, with the transaction's hash.
C20_EthAccepted ==
  [][ BlockStep =>
        \A j \in 1..Len(loops["base"][1].pending) :
          LET i == loops["base"][1].pending[j]
              txs == getBlockTransactions("base", loops["base"][1].blockNum)
          IN \A n \in 1..Len(txs) :
               ( /\ payments[i].crypto = "ETH"
                 /\ txs[n].to = payments[i].pay_address
                 /\ txs[n].amount * 1000 >= quoted[i] * 995 )
               => /\ deliverCalls'[i] > deliverCalls[i]
                  /\ payments'[i].tx_hash # NULL ]_vars

\* C21: a log of the batch that does not decode is skipped on its own: for a
\* pending USDC intent of the tick, every well-formed log of the answer to its
\* pay_address with an amount of at least 99% of the expected amount invokes
\* the callback, whatever other entries the batch holds before it.
C21_MalformedLogSkipped ==
  [][ LogsStep =>
        \A j \in 1..Len(loops["base"][1].pending) :
          LET i == loops["base"][1].pending[j]
              accepted == SelectSeq(LogsTo(i), LAMBDA x : x.amount >= ExpectedShare(i, 990))
          IN payments[i].crypto = "USDC" =>
               deliverCalls'[i] = deliverCalls[i] + Len(accepted) ]_vars

\* The getTransaction answers for signature sig, as positions of the history.
AnswersFor(sig) == { n \in 1..Len(solHist.answers) : solHist.answers[n].sig = sig }

\* Signature sig pays, within the tolerance, the amount quoted to a pending SOL intent.
PaysPending(sig) ==
  \E i \in Ids : /\ payments[i].crypto = "SOL"
                 /\ payments[i].status = "pending"
                 /\ signatures[sig].delta > 0
                 /\ SolAccepts(quoted[i], signatures[sig].delta)

\* C22: a signature whose getTransaction failed is examined again on a later
\* tick: as long as it pays a pending intent and has not been fetched again,
\* it is still above the high-water mark, where the next tick's query finds it.
C22_FailedFetchRetried ==
  \A n \in 1..Len(solHist.answers) :
    LET a == solHist.answers[n]
    IN ( /\ ~a.ok
         /\ \A m \in AnswersFor(a.sig) : m <= n
         /\ PaysPending(a.sig) )
       => a.sig > lastSignature

\* The tick of the Solana monitor receives the answer of getSignaturesForAddress in this step.
SignaturesStep == solLoop.pc = "getSignatures" /\ solLoop'.pc # "getSignatures"

\* C23: a tick that is handed new signatures sets the high-water mark to the
\* newest of them, whatever happens to them afterwards, and getTransaction
\* is called only for a signature above the mark the tick started from: no
\* signature is fetched twice in a run.
C23_SignatureFetchedOnce ==
  [][ /\ SignaturesStep =>
           /\ lastSignature' \in { lastSignature, Len(signatures) }
           /\ solLoop'.pc = "getTransaction" => lastSignature' = Len(signatures)
      /\ solLoop'.pc = "getTransaction" =>
           /\ AnswersFor(Head(solLoop'.sigs)) = {}
           /\ \A n \in 1..Len(solLoop'.sigs) : solLoop'.sigs[n] <= lastSignature'
      /\ \A sig \in 1..Len(signatures) : Cardinality(AnswersFor(sig)) <= 1 ]_vars

\* C23 witness: a later tick fetches the second signature only, the first one
\* having been fetched by an earlier tick that moved the mark to it.
C23_Witness ==
  /\ solLoop.pc = "getTransaction"
  /\ solLoop.sigs = << 2 >>
  /\ AnswersFor(1) # {}
  /\ lastSignature = 2

\* C24: an RPC error during a tick never ends the poll loop. No step of a
\* tick, failed queries included, takes a loop out of its cycle or changes
\* the monitor's polling flag, and as long as a monitor stays Running its
\* loop begins a tick again and again.
C24_ErrorsNeverEndLoop ==
  /\ [][ /\ loops["base"][1].pc \in TickPcs =>
              /\ loops'["base"][1].pc \in TickPcs \cup {"sleep"}
              /\ loops'["base"] # loops["base"] => polling'["base"] = polling["base"]
         /\ solLoop.pc \in {"getSignatures", "getTransaction"} =>
              /\ solLoop'.pc \in {"getSignatures", "getTransaction", "sleep"}
              /\ solLoop' # solLoop => solPolling' = solPolling
         /\ (polling'["base"] /\ loops["base"][1].pc # "none") => loops'["base"][1].pc # "none"
         /\ (solPolling' /\ solLoop.pc # "none") => solLoop'.pc # "none" ]_vars
  /\ [](polling["base"]) => []<>(loops["base"][1].pc = "getBlockNumber")
  /\ [](solPolling) => ([]<>(solHist.ticks) /\ []<>(~solHist.ticks))

\* C24 witness: the base monitor is in a new tick after a getLogs error on a
\* block its watermark has passed, and the Solana loop is alive, asleep
\* between two ticks.
C24_Witness ==
  /\ polling["base"]
  /\ loops["base"][1].pc = "getLogs"
  /\ \E x \in scans["base"].due \ scans["base"].done : x[2] <= lastBlock["base"]
  /\ solPolling
  /\ solLoop.pc = "sleep"
  /\ solHist.ticks

\* Row i is one the Solana monitor is responsible for.
SolRow(i) == payments[i].crypto = "SOL" /\ payments[i].chain = "solana"

\* C25: a monitor acts only on the intents of its own chain. The pending
\* rows a tick of the EVM monitor c works on all have chain = c, those of a
\* Solana tick are SOL rows on solana; a callback is invoked only in a step
\* of the monitor of the row's chain, for a row of that tick; and a step of
\* one monitor changes neither a row of another chain nor another monitor.
C25_OwnChainOnly ==
  [][ /\ \A c \in EvmChains : \A j \in 1..Len(loops'[c][1].pending) :
           payments'[loops'[c][1].pending[j]].chain = c
      /\ \A j \in 1..Len(solLoop'.pending) : SolRow(solLoop'.pending[j])
      /\ \A i \in Ids :
           deliverCalls'[i] > deliverCalls[i] =>
             \/ \E c \in EvmChains :
                  /\ loops'[c] # loops[c]
                  /\ payments[i].chain = c
                  /\ \E j \in 1..Len(loops[c][1].pending) : loops[c][1].pending[j] = i
             \/ /\ solLoop' # solLoop
                /\ SolRow(i)
                /\ \E j \in 1..Len(solLoop.pending) : solLoop.pending[j] = i
      /\ \A c \in EvmChains :
           loops'[c] # loops[c] =>
             /\ \A i \in Ids : payments[i].chain # c => payments'[i] = payments[i]
             /\ \A d \in EvmChains \ {c} : loops'[d] = loops[d] /\ lastBlock'[d] = lastBlock[d]
             /\ << solLoop', lastSignature' >> = << solLoop, lastSignature >>
      /\ solLoop' # solLoop =>
           /\ \A i \in Ids : ~SolRow(i) => payments'[i] = payments[i]
           /\ << loops', lastBlock' >> = << loops, lastBlock >> ]_vars

\* C25 witness: the ethereum monitor has read a block holding an ETH transfer
\* to the pay address of a base intent, while an ethereum intent was pending;
\* the base intent was confirmed by the base monitor alone, called back once
\* with the hash of the USDC transfer on base.
C25_Witness ==
  \E i \in Ids :
    /\ payments[i].chain = "base"
    /\ \E n \in 1..Len(transfers["ethereum"]) :
         /\ transfers["ethereum"][n].to = payments[i].pay_address
         /\ << "ETH", transfers["ethereum"][n].block >> \in scans["ethereum"].done
    /\ deliverCalls[i] = 1
    /\ payments[i].tx_hash # NULL
    /\ \E n \in 1..Len(transfers["base"]) :
         /\ transfers["base"][n].hash = payments[i].tx_hash
         /\ transfers["base"][n].to = payments[i].pay_address

\* C26: a download is answered with the file only when the token presented
\* is the download_token stored at that moment for a row whose status is
\* confirmed or delivered and whose product is the slug asked for; the
\* handler calls markDelivered exactly when the row is confirmed, and
\* serving a delivered row leaves the ledger as it was.
C26_DownloadAuthorised ==
  [][ served' # served =>
        LET r == served'[1]
        IN /\ r.id \in Ids
           /\ r.row = payments[r.id]
           /\ payments[r.id].download_token = r.token
           /\ payments[r.id].status \in {"confirmed", "delivered"}
           /\ payments[r.id].product_slug = r.slug
           /\ r.marked <=> payments[r.id].status = "confirmed"
           /\ payments[r.id].status = "confirmed" => payments'[r.id].status = "delivered"
           /\ payments[r.id].status = "delivered" =>
                (payments' = payments /\ events' = events) ]_vars

\* C26 witness: after a second confirmation replaced the first token, the
\* file was served for the current token of the row, which was delivered
\* by then, without a call of markDelivered.
C26_Witness ==
  /\ served # << >>
  /\ served[1].token = 2
  /\ served[1].row.status = "delivered"
  /\ ~served[1].marked
====
